---------------------------- MODULE Spec2Model ----------------------------
(***************************************************************************)
(* Model of the two Markdown-to-PDF command line converters:               *)
(*   Pipeline A  src/md_to_pdf_converter.py          (weasyprint)          *)
(*   Pipeline B  src/md_to_pdf_converter_windows.py  (reportlab)           *)
(*                                                                         *)
(* Two state machines live in this module.                                 *)
(*   Spec       the batch loop of main() of both pipelines, run side by    *)
(*              side on the same command line and the same files.          *)
(*   SpecParse  the line transducer parse_markdown_to_elements of          *)
(*              Pipeline B, one action per loop iteration.                 *)
(* Strings are sequences of one-character strings, so that strip,          *)
(* startswith, endswith, the regular expressions, join and split are       *)
(* computed character by character as Python computes them.                *)
(***************************************************************************)
EXTENDS Integers, Sequences, FiniteSets, TLC

VARIABLES
    \* ---- main(): the command line and the files behind it
    input_files,    \* args.input_files: per argument, what the file is (FileKinds)
    output,         \* args.output: "none" (None), "empty" ('') or "set" (a path)
    \* ---- main(): per pipeline ("A", "B")
    pc,             \* position in main(): "start", "loop", "exited"
    idx,            \* 1-based position of the for loop in input_files
    success_count,  \* success_count
    total_count,    \* total_count
    stdout,         \* what was printed, in order
    exit_code,      \* process exit status, -1 while running
    attempts,       \* arguments convert_markdown_to_pdf was called on
    pdfs,           \* output paths a PDF was written to
    \* ---- parse_markdown_to_elements (Pipeline B)
    lines,          \* html_content.split('\n')
    i,              \* the cursor i (0-based, as in the code)
    elements,       \* elements
    ppc,            \* "idle", "outer", "code", "quote", "table", "done"
    buf             \* code_lines / quote_lines / table_data of the open block

mainVars  == <<input_files, output, pc, idx, success_count, total_count,
               stdout, exit_code, attempts, pdfs>>
parseVars == <<lines, i, elements, ppc, buf>>
vars      == <<mainVars, parseVars>>

(***************************************************************************)
(* Bounds.                                                                 *)
(***************************************************************************)
\* Longest command line (number of input files).
MaxArgs == 3
\* Longest free-form HTML line sequence over the lines of the multi-line blocks.
MaxLines == 3
\* Longest free-form HTML line sequence over the lines of every branch.
MaxShort == 2

(***************************************************************************)
(*                         PART 1: main()                                  *)
(***************************************************************************)
Pipelines == {"A", "B"}

\* What one command line argument turns out to be when main() reaches it.
\*   missing     os.path.exists is False
\*   badext      exists, but does not end in .md / .markdown
\*   gone        passes the pre-check, open() raises FileNotFoundError
\*   readerr     passes the pre-check, open()/read() raises another exception
\*               (a directory named x.md, bytes that are not UTF-8)
\*   mdfail      read, markdown2.markdown raises (e.g. RecursionError on
\*               deeply nested input)
\*   renderfail  read and converted, the PDF library raises
\*   ok          a PDF is written
\* Path(markdown_file).with_suffix('.pdf') raises only for a path with an
\* empty name; such a path is a directory and fails at open() first, so no
\* kind stands for a failure of that step.
FileKinds == {"missing", "badext", "gone", "readerr", "mdfail", "renderfail", "ok"}

\* args.output as Python sees it.
Outputs == {"none", "empty", "set"}

\* Truthiness of args.output: None and '' are falsy.
Truthy(o) == o = "set"

Range(s) == {s[k] : k \in DOMAIN s}

\* nargs='+': at least one input file.
ArgLists == UNION {[1..n -> FileKinds] : n \in 1..MaxArgs}

\* The conflict check with an off-by-one length test.
ConflictMut(files, o) == Len(files) > 2 /\ Truthy(o)
\* `if len(args.input_files) > 1 and args.output:`
Conflict(files, o) == Len(files) > 1 /\ Truthy(o)

\* `total_count = len(args.input_files)` of Pipeline A and of Pipeline B.
Unfiltered(files) == {k \in 1..Len(files) : files[k] \notin {"missing", "badext"}}
\* A total that leaves out the arguments the pre-check filters.
TotalCountAMut(files) == Cardinality(Unfiltered(files))
TotalCountA(files) == Len(files)
\* The same change in Pipeline B.
TotalCountBMut(files) == Cardinality(Unfiltered(files))
TotalCountB(files) == Len(files)
TotalCount(p, files) == IF p = "A" THEN TotalCountA(files) ELSE TotalCountB(files)

\* The pre-check of the for loop: the warning printed, or "pass".
PreCheck(kind) ==
    CASE kind = "missing" -> "WarnMissing"
      [] kind = "badext"  -> "WarnNotMarkdown"
      [] OTHER            -> "pass"

\* convert_markdown_to_pdf of Pipeline A on a file of the given kind:
\* "True", "False" (a caught failure) or "Raise" (an exception leaves the
\* function).  Reading is inside try (35-43), markdown2.markdown is not
\* (46-49), rendering is (133-149).
ConvertA(kind) ==
    CASE kind = "gone"       -> [ret |-> "False", msg |-> "ErrNotFound"]
      [] kind = "readerr"    -> [ret |-> "False", msg |-> "ErrReading"]
      [] kind = "mdfail"     -> [ret |-> "Raise", msg |-> "Traceback"]
      [] kind = "renderfail" -> [ret |-> "False", msg |-> "ErrConverting"]
      [] OTHER               -> [ret |-> "True",  msg |-> "Success"]

\* convert_markdown_to_pdf of Pipeline B: reading is inside try (251-259);
\* parse_markdown_to_elements, which calls markdown2.markdown, and doc.build
\* are inside the second try (265-287).
ConvertB(kind) ==
    CASE kind = "gone"       -> [ret |-> "False", msg |-> "ErrNotFound"]
      [] kind = "readerr"    -> [ret |-> "False", msg |-> "ErrReading"]
      [] kind = "mdfail"     -> [ret |-> "False", msg |-> "ErrConverting"]
      [] kind = "renderfail" -> [ret |-> "False", msg |-> "ErrConverting"]
      [] OTHER               -> [ret |-> "True",  msg |-> "Success"]

Convert(p, kind) == IF p = "A" THEN ConvertA(kind) ELSE ConvertB(kind)

\* `output_file = args.output if args.output else None`, then inside
\* convert_markdown_to_pdf `Path(markdown_file).with_suffix('.pdf')` when None:
\* the path the PDF of argument k goes to.
OutputPath(o, k) == IF Truthy(o) THEN <<"output", 0>> ELSE <<"derived", k>>

Msg(kind, k) == [kind |-> kind, file |-> k, x |-> 0, y |-> 0]
SummaryMsg(x, y) == [kind |-> "Summary", file |-> 0, x |-> x, y |-> y]

InitMain ==
    /\ input_files \in ArgLists
    /\ output \in Outputs
    /\ pc = [p \in Pipelines |-> "start"]
    /\ idx = [p \in Pipelines |-> 0]
    /\ success_count = [p \in Pipelines |-> 0]
    /\ total_count = [p \in Pipelines |-> 0]
    /\ stdout = [p \in Pipelines |-> <<>>]
    /\ exit_code = [p \in Pipelines |-> -1]
    /\ attempts = [p \in Pipelines |-> {}]
    /\ pdfs = [p \in Pipelines |-> {}]

\* main() after parse_args: the conflict check, sys.exit(1).
RejectConflict(p) ==
    /\ pc[p] = "start"
    /\ Conflict(input_files, output)
    /\ stdout' = [stdout EXCEPT ![p] = Append(@, Msg("ErrConflict", 0))]
    /\ exit_code' = [exit_code EXCEPT ![p] = 1]
    /\ pc' = [pc EXCEPT ![p] = "exited"]
    /\ UNCHANGED <<input_files, output, idx, success_count, total_count,
                   attempts, pdfs>>

\* main(): no conflict; success_count = 0, total_count = len(...), enter the loop.
StartBatch(p) ==
    /\ pc[p] = "start"
    /\ ~Conflict(input_files, output)
    /\ success_count' = [success_count EXCEPT ![p] = 0]
    /\ total_count' = [total_count EXCEPT ![p] = TotalCount(p, input_files)]
    /\ idx' = [idx EXCEPT ![p] = 1]
    /\ pc' = [pc EXCEPT ![p] = "loop"]
    /\ UNCHANGED <<input_files, output, stdout, exit_code, attempts, pdfs>>

\* One iteration of `for markdown_file in args.input_files` that ends in
\* `continue`: the file is skipped by the pre-check.
SkipFile(p) ==
    /\ pc[p] = "loop"
    /\ idx[p] <= Len(input_files)
    /\ PreCheck(input_files[idx[p]]) # "pass"
    /\ stdout' = [stdout EXCEPT ![p] =
                    Append(@, Msg(PreCheck(input_files[idx[p]]), idx[p]))]
    /\ idx' = [idx EXCEPT ![p] = @ + 1]
    /\ UNCHANGED <<input_files, output, pc, success_count, total_count,
                   exit_code, attempts, pdfs>>

\* One iteration that calls convert_markdown_to_pdf and gets a result back.
ConvertFile(p) ==
    /\ pc[p] = "loop"
    /\ idx[p] <= Len(input_files)
    /\ PreCheck(input_files[idx[p]]) = "pass"
    /\ LET r == Convert(p, input_files[idx[p]]) IN
        /\ r.ret # "Raise"
        /\ stdout' = [stdout EXCEPT ![p] = Append(@, Msg(r.msg, idx[p]))]
        /\ success_count' = [success_count EXCEPT ![p] =
                               IF r.ret = "True" THEN @ + 1 ELSE @]
        /\ pdfs' = [pdfs EXCEPT ![p] =
                      IF r.ret = "True" THEN @ \cup {OutputPath(output, idx[p])}
                                        ELSE @]
    /\ attempts' = [attempts EXCEPT ![p] = @ \cup {idx[p]}]
    /\ idx' = [idx EXCEPT ![p] = @ + 1]
    /\ UNCHANGED <<input_files, output, pc, total_count, exit_code>>

\* One iteration in which convert_markdown_to_pdf raises: nothing in main()
\* catches it, the interpreter prints the traceback and exits with status 1.
ConvertRaises(p) ==
    /\ pc[p] = "loop"
    /\ idx[p] <= Len(input_files)
    /\ PreCheck(input_files[idx[p]]) = "pass"
    /\ Convert(p, input_files[idx[p]]).ret = "Raise"
    /\ stdout' = [stdout EXCEPT ![p] = Append(@, Msg("Traceback", idx[p]))]
    /\ attempts' = [attempts EXCEPT ![p] = @ \cup {idx[p]}]
    /\ exit_code' = [exit_code EXCEPT ![p] = 1]
    /\ pc' = [pc EXCEPT ![p] = "exited"]
    /\ UNCHANGED <<input_files, output, idx, success_count, total_count, pdfs>>

\* After the loop: the summary line, then sys.exit(1) if nothing succeeded.
Summary(p) ==
    /\ pc[p] = "loop"
    /\ idx[p] > Len(input_files)
    /\ stdout' = [stdout EXCEPT ![p] =
                    Append(@, SummaryMsg(success_count[p], total_count[p]))]
    /\ exit_code' = [exit_code EXCEPT ![p] = IF success_count[p] = 0 THEN 1 ELSE 0]
    /\ pc' = [pc EXCEPT ![p] = "exited"]
    /\ UNCHANGED <<input_files, output, idx, success_count, total_count,
                   attempts, pdfs>>

ParseIdle ==
    /\ lines = <<>>
    /\ i = 0
    /\ elements = <<>>
    /\ ppc = "done"
    /\ buf = <<>>

Init == InitMain /\ ParseIdle

Next ==
    \/ \E p \in Pipelines : RejectConflict(p) /\ UNCHANGED parseVars
    \/ \E p \in Pipelines : StartBatch(p) /\ UNCHANGED parseVars
    \/ \E p \in Pipelines : SkipFile(p) /\ UNCHANGED parseVars
    \/ \E p \in Pipelines : ConvertFile(p) /\ UNCHANGED parseVars
    \/ \E p \in Pipelines : ConvertRaises(p) /\ UNCHANGED parseVars
    \/ \E p \in Pipelines : Summary(p) /\ UNCHANGED parseVars

Spec == Init /\ [][Next]_vars


(***************************************************************************)
(*          PART 2: parse_markdown_to_elements (Pipeline B)                *)
(***************************************************************************)
\* ---- Python string operations, on sequences of characters
Whitespace == {" ", "\t"}

RECURSIVE lstrip(_)
lstrip(s) == IF s # <<>> /\ Head(s) \in Whitespace THEN lstrip(Tail(s)) ELSE s

RECURSIVE rstrip(_)
rstrip(s) ==
    IF s # <<>> /\ s[Len(s)] \in Whitespace THEN rstrip(SubSeq(s, 1, Len(s) - 1)) ELSE s

\* str.strip()
strip(s) == rstrip(lstrip(s))

\* str.startswith(prefix), str.endswith(suffix)
startswith(s, prefix) ==
    Len(s) >= Len(prefix) /\ SubSeq(s, 1, Len(prefix)) = prefix
endswith(s, suffix) ==
    Len(s) >= Len(suffix) /\ SubSeq(s, Len(s) - Len(suffix) + 1, Len(s)) = suffix

\* `sub in s`
contains(s, sub) ==
    \E k \in 1..(Len(s) - Len(sub) + 1) : SubSeq(s, k, k + Len(sub) - 1) = sub

\* Position of the first k >= from with P-match of one of the needles, or 0.
FirstAt(s, needles, from) ==
    LET hits == {k \in from..Len(s) :
                    \E n \in needles : startswith(SubSeq(s, k, Len(s)), n)}
    IN IF hits = {} THEN 0 ELSE CHOOSE k \in hits : \A m \in hits : k <= m

\* sep.join(parts)
RECURSIVE join(_, _)
join(sep, parts) ==
    IF parts = <<>> THEN <<>>
    ELSE IF Len(parts) = 1 THEN parts[1]
    ELSE parts[1] \o sep \o join(sep, Tail(parts))

\* text.split(sep) for a one-character separator
RECURSIVE split(_, _)
split(text, sep) ==
    LET k == FirstAt(text, {<<sep>>}, 1)
    IN IF k = 0 THEN <<text>>
       ELSE <<SubSeq(text, 1, k - 1)>> \o split(SubSeq(text, k + 1, Len(text)), sep)

\* clean_html_tags: re.sub('<.*?>', '', text).  A '<' with a later '>' is
\* removed up to the first such '>'; a '<' with no '>' after it stays.
RECURSIVE clean_html_tags(_)
clean_html_tags(text) ==
    IF text = <<>> THEN <<>>
    ELSE LET close == FirstAt(text, {<<">">>}, 2)
         IN IF Head(text) = "<" /\ close # 0
            THEN clean_html_tags(SubSeq(text, close + 1, Len(text)))
            ELSE <<Head(text)>> \o clean_html_tags(Tail(text))

\* ---- the literals of the code
Tag(name) == <<"<">> \o name \o <<">">>
EndTag(name) == <<"<", "/">> \o name \o <<">">>
OPEN_CODE == Tag(<<"p", "r", "e">>) \o Tag(<<"c", "o", "d", "e">>)
CLOSE_CODE == EndTag(<<"c", "o", "d", "e">>) \o EndTag(<<"p", "r", "e">>)
OPEN_QUOTE == Tag(<<"b", "l", "o", "c", "k", "q", "u", "o", "t", "e">>)
CLOSE_QUOTE == EndTag(<<"b", "l", "o", "c", "k", "q", "u", "o", "t", "e">>)
OPEN_TABLE == Tag(<<"t", "a", "b", "l", "e">>)
CLOSE_TABLE == EndTag(<<"t", "a", "b", "l", "e">>)
OPEN_TR == Tag(<<"t", "r">>)
OPEN_P == Tag(<<"p">>)
OPEN_LI == Tag(<<"l", "i">>)
OPEN_H(n) == Tag(<<"h", ToString(n)>>)
CellOpen == {Tag(<<"t", "h">>), Tag(<<"t", "d">>)}
CellClose == {EndTag(<<"t", "h">>), EndTag(<<"t", "d">>)}
\* The bullet glyph of f"... {text}", one character.
BULLET == <<"BULLET", " ">>

\* re.findall(r'<t[hd]>(.*?)</t[hd]>', row_line): the captured groups, left
\* to right, non-overlapping, each up to the nearest closing tag.
RECURSIVE findall_cells(_)
findall_cells(s) ==
    IF s = <<>> THEN <<>>
    ELSE LET close == FirstAt(s, CellClose, 5)
         IN IF (\E o \in CellOpen : startswith(s, o)) /\ close # 0
            THEN <<SubSeq(s, 5, close - 1)>>
                    \o findall_cells(SubSeq(s, close + 5, Len(s)))
            ELSE findall_cells(Tail(s))

\* ---- flow elements
Block(kind, level, text, rows) ==
    [kind |-> kind, level |-> level, text |-> text, rows |-> rows, h |-> 0]
Spacer(h) ==
    [kind |-> "Spacer", level |-> 0, text |-> <<>>, rows |-> <<>>, h |-> h]

\* The heading level of a line that starts with <h1>..<h6>, else 0.
HeadingLevel(line) ==
    IF \E n \in 1..6 : startswith(line, OPEN_H(n))
    THEN CHOOSE n \in 1..6 : startswith(line, OPEN_H(n))
    ELSE 0

\* Spacer(1, 12), (1, 10), (1, 8), (1, 6), (1, 4), (1, 4) after <h1>..<h6>.
HeadingSpace(n) == CASE n = 1 -> 12 [] n = 2 -> 10 [] n = 3 -> 8
                     [] n = 4 -> 6 [] OTHER -> 4

\* The if/elif chain on the stripped line, in its order.
Classify(line) ==
    CASE line = <<>>                   -> "blank"
      [] HeadingLevel(line) # 0        -> "heading"
      [] startswith(line, OPEN_CODE)   -> "code"
      [] startswith(line, OPEN_QUOTE)  -> "quote"
      [] startswith(line, OPEN_TABLE)  -> "table"
      [] startswith(line, OPEN_P)      -> "p"
      [] startswith(line, OPEN_LI)     -> "li"
      [] OTHER                         -> "other"

\* `if line.endswith('</code></pre>')`, `if line.endswith('</blockquote>')`
SingleLine(line, closing) == endswith(line, closing)

\* The inner while conditions' second halves.
CodeEnds(raw) == endswith(strip(raw), CLOSE_CODE)
QuoteEnds(raw) == endswith(strip(raw), CLOSE_QUOTE)
TableEnds(raw) == startswith(strip(raw), CLOSE_TABLE)

\* One pass of the table loop body: table_data after row_line.
TableRowData(table_data, row_line) ==
    IF startswith(row_line, OPEN_TR)
    THEN LET cells == findall_cells(row_line)
             row_data == [k \in 1..Len(cells) |-> clean_html_tags(cells[k])]
         IN IF row_data # <<>> THEN Append(table_data, row_data) ELSE table_data
    ELSE table_data

\* The table branch with the spacer appended outside `if table_data:`.
TableElementsMut(table_data) ==
    (IF table_data # <<>> THEN <<Block("Table", 0, <<>>, table_data)>> ELSE <<>>)
        \o <<Spacer(12)>>
\* What the table branch appends once its loop is over.
TableElements(table_data) ==
    IF table_data # <<>>
    THEN <<Block("Table", 0, <<>>, table_data), Spacer(12)>>
    ELSE <<>>

\* What the <p> branch and the final else branch append.
TextElements(line) ==
    LET text == clean_html_tags(line)
    IN IF strip(text) # <<>>
       THEN <<Block("Paragraph", 0, text, <<>>), Spacer(6)>>
       ELSE <<>>

\* The line under the cursor, stripped: `line = lines[i].strip()`.
Line == strip(lines[i + 1])

MainIdle ==
    /\ input_files = <<"ok">>
    /\ output = "none"
    /\ pc = [p \in Pipelines |-> "exited"]
    /\ idx = [p \in Pipelines |-> 2]
    /\ success_count = [p \in Pipelines |-> 1]
    /\ total_count = [p \in Pipelines |-> 1]
    /\ stdout = [p \in Pipelines |-> <<Msg("Success", 1), SummaryMsg(1, 1)>>]
    /\ exit_code = [p \in Pipelines |-> 0]
    /\ attempts = [p \in Pipelines |-> {1}]
    /\ pdfs = [p \in Pipelines |-> {OutputPath("none", 1)}]

\* `if not line: i += 1; continue`
SkipBlank ==
    /\ ppc = "outer" /\ i < Len(lines)
    /\ Classify(Line) = "blank"
    /\ i' = i + 1
    /\ UNCHANGED <<lines, elements, ppc, buf>>

\* The six heading branches.
Heading ==
    /\ ppc = "outer" /\ i < Len(lines)
    /\ Classify(Line) = "heading"
    /\ elements' = elements \o
          <<Block("Heading", HeadingLevel(Line), clean_html_tags(Line), <<>>),
            Spacer(HeadingSpace(HeadingLevel(Line)))>>
    /\ i' = i + 1
    /\ UNCHANGED <<lines, ppc, buf>>

\* The code branch, single line.
CodeSingle ==
    /\ ppc = "outer" /\ i < Len(lines)
    /\ Classify(Line) = "code"
    /\ SingleLine(Line, CLOSE_CODE)
    /\ elements' = elements \o
          <<Block("CodeBlock", 0, clean_html_tags(Line), <<>>), Spacer(12)>>
    /\ i' = i + 1
    /\ UNCHANGED <<lines, ppc, buf>>

\* The code branch, multi-line: the opening line is kept, the cursor moves on.
CodeOpen ==
    /\ ppc = "outer" /\ i < Len(lines)
    /\ Classify(Line) = "code"
    /\ ~SingleLine(Line, CLOSE_CODE)
    /\ buf' = <<clean_html_tags(Line)>>
    /\ i' = i + 1
    /\ ppc' = "code"
    /\ UNCHANGED <<lines, elements>>

\* One iteration of the inner while of the code branch: a raw line is kept.
CodeCapture ==
    /\ ppc = "code"
    /\ i < Len(lines) /\ ~CodeEnds(lines[i + 1])
    /\ buf' = Append(buf, lines[i + 1])
    /\ i' = i + 1
    /\ UNCHANGED <<lines, elements, ppc>>

\* CodeEmit with the emission moved under `if i < len(lines)`.
CodeEmitMut ==
    /\ ppc = "code"
    /\ ~(i < Len(lines) /\ ~CodeEnds(lines[i + 1]))
    /\ elements' =
          IF i < Len(lines)
          THEN elements \o
                 <<Block("CodeBlock", 0,
                         join(<<"\n">>, Append(buf, clean_html_tags(lines[i + 1]))),
                         <<>>),
                   Spacer(12)>>
          ELSE elements
    /\ buf' = <<>>
    /\ i' = i + 1
    /\ ppc' = "outer"
    /\ UNCHANGED lines

\* After the inner while: the closing line if there is one, join, emit, and
\* the `i += 1` that ends the outer iteration.
CodeEmit ==
    /\ ppc = "code"
    /\ ~(i < Len(lines) /\ ~CodeEnds(lines[i + 1]))
    /\ LET code_lines == IF i < Len(lines)
                         THEN Append(buf, clean_html_tags(lines[i + 1]))
                         ELSE buf
       IN elements' = elements \o
            <<Block("CodeBlock", 0, join(<<"\n">>, code_lines), <<>>), Spacer(12)>>
    /\ buf' = <<>>
    /\ i' = i + 1
    /\ ppc' = "outer"
    /\ UNCHANGED lines

\* The blockquote branch, single line.
QuoteSingle ==
    /\ ppc = "outer" /\ i < Len(lines)
    /\ Classify(Line) = "quote"
    /\ SingleLine(Line, CLOSE_QUOTE)
    /\ elements' = elements \o
          <<Block("Quote", 0, clean_html_tags(Line), <<>>), Spacer(12)>>
    /\ i' = i + 1
    /\ UNCHANGED <<lines, ppc, buf>>

QuoteOpen ==
    /\ ppc = "outer" /\ i < Len(lines)
    /\ Classify(Line) = "quote"
    /\ ~SingleLine(Line, CLOSE_QUOTE)
    /\ buf' = <<clean_html_tags(Line)>>
    /\ i' = i + 1
    /\ ppc' = "quote"
    /\ UNCHANGED <<lines, elements>>

QuoteCapture ==
    /\ ppc = "quote"
    /\ i < Len(lines) /\ ~QuoteEnds(lines[i + 1])
    /\ buf' = Append(buf, clean_html_tags(lines[i + 1]))
    /\ i' = i + 1
    /\ UNCHANGED <<lines, elements, ppc>>

QuoteEmit ==
    /\ ppc = "quote"
    /\ ~(i < Len(lines) /\ ~QuoteEnds(lines[i + 1]))
    /\ LET quote_lines == IF i < Len(lines)
                          THEN Append(buf, clean_html_tags(lines[i + 1]))
                          ELSE buf
       IN elements' = elements \o
            <<Block("Quote", 0, join(<<" ">>, quote_lines), <<>>), Spacer(12)>>
    /\ buf' = <<>>
    /\ i' = i + 1
    /\ ppc' = "outer"
    /\ UNCHANGED lines

\* The table branch: table_data = [], i += 1.
TableOpen ==
    /\ ppc = "outer" /\ i < Len(lines)
    /\ Classify(Line) = "table"
    /\ buf' = <<>>
    /\ i' = i + 1
    /\ ppc' = "table"
    /\ UNCHANGED <<lines, elements>>

\* One iteration of the table's while loop.
TableRow ==
    /\ ppc = "table"
    /\ i < Len(lines) /\ ~TableEnds(lines[i + 1])
    /\ buf' = TableRowData(buf, strip(lines[i + 1]))
    /\ i' = i + 1
    /\ UNCHANGED <<lines, elements, ppc>>

\* After the table's while loop.
TableEmit ==
    /\ ppc = "table"
    /\ ~(i < Len(lines) /\ ~TableEnds(lines[i + 1]))
    /\ elements' = elements \o TableElements(buf)
    /\ buf' = <<>>
    /\ i' = i + 1
    /\ ppc' = "outer"
    /\ UNCHANGED lines

\* The <p> branch.
ParagraphLine ==
    /\ ppc = "outer" /\ i < Len(lines)
    /\ Classify(Line) = "p"
    /\ elements' = elements \o TextElements(Line)
    /\ i' = i + 1
    /\ UNCHANGED <<lines, ppc, buf>>

\* The final else branch.
OtherLine ==
    /\ ppc = "outer" /\ i < Len(lines)
    /\ Classify(Line) = "other"
    /\ elements' = elements \o TextElements(Line)
    /\ i' = i + 1
    /\ UNCHANGED <<lines, ppc, buf>>

\* The <li> branch.
ListItem ==
    /\ ppc = "outer" /\ i < Len(lines)
    /\ Classify(Line) = "li"
    /\ elements' = elements \o
          <<Block("ListItem", 0, BULLET \o clean_html_tags(Line), <<>>), Spacer(3)>>
    /\ i' = i + 1
    /\ UNCHANGED <<lines, ppc, buf>>

\* `while i < len(lines)` is false: return elements.
Return ==
    /\ ppc = "outer" /\ i >= Len(lines)
    /\ ppc' = "done"
    /\ UNCHANGED <<lines, i, elements, buf>>

(***************************************************************************)
(* The HTML line sequences the transducer is run on.                       *)
(***************************************************************************)
Wrap(name, body) == Tag(name) \o body \o EndTag(name)

\* Lines of the multi-line blocks and of what may sit inside or after them:
\* free-form sequences of up to MaxLines lines are drawn from these.
CorePool ==
    { <<>>,                                                   \* blank
      Wrap(<<"p">>, <<" ">>),                                 \* <p> </p>
      <<" ", "b">>,                                           \* " b"
      OPEN_CODE \o <<"a">>,                                   \* <pre><code>a
      CLOSE_CODE,                                             \* </code></pre>
      OPEN_CODE \o <<"a">> \o CLOSE_CODE \o Wrap(<<"p">>, <<"b">>),
      OPEN_QUOTE,                                             \* <blockquote>
      CLOSE_QUOTE,                                            \* </blockquote>
      OPEN_TABLE,                                             \* <table>
      OPEN_TR \o Wrap(<<"t", "d">>, <<"a">>) \o EndTag(<<"t", "r">>),
      CLOSE_TABLE }                                           \* </table>

\* Every branch of the if/elif chain: free-form sequences of up to MaxShort
\* lines are drawn from these.
LinePool ==
    CorePool \cup
    { Wrap(<<"h", "1">>, <<"a">>),                            \* <h1>a</h1>
      Wrap(<<"h", "6">>, <<>>),                               \* <h6></h6>
      <<" ">> \o Wrap(<<"p">>, <<"a">>),                      \* " <p>a</p>"
      Wrap(<<"l", "i">>, <<"a">>),                            \* <li>a</li>
      Tag(<<"u", "l">>),                                      \* <ul>
      OPEN_CODE \o <<"a">> \o CLOSE_CODE,                     \* one-line code
      OPEN_QUOTE \o <<"a">> \o CLOSE_QUOTE,                   \* one-line quote
      OPEN_QUOTE \o <<"a">> \o CLOSE_QUOTE \o <<"b">>,
      OPEN_TR }                                               \* <tr>

FreeDocs ==
    UNION {[1..n -> CorePool] : n \in 0..MaxLines}
        \cup UNION {[1..n -> LinePool] : n \in 0..MaxShort}

\* Content lines of a code block (markdown2 escapes <, > and & in them).
ContentLines == { <<"a">>, <<" ", "b">> }

\* A code block of three content lines as markdown2 writes it, the closing
\* marker on a line of its own ('<pre><code>%s\n</code></pre>'), and with the
\* closing marker on the last content line.
Code3Own(c) == <<OPEN_CODE \o c[1], c[2], c[3], CLOSE_CODE>>
Code3Same(c) == <<OPEN_CODE \o c[1], c[2], c[3] \o CLOSE_CODE>>
Code3Docs ==
    {Code3Own(c) : c \in [1..3 -> ContentLines]}
        \cup {Code3Same(c) : c \in [1..3 -> ContentLines]}

\* The three content lines of a document of Code3Docs.
Code3Content(doc) ==
    CHOOSE c \in [1..3 -> ContentLines] : doc \in {Code3Own(c), Code3Same(c)}

\* A table of a header row and two data rows, n columns.  TableRows(n) are
\* its cell texts.
CellText(r, c) == <<IF r = 1 THEN "H" ELSE "d", ToString(r), ToString(c)>>
TableRows(n) == [r \in 1..3 |-> [c \in 1..n |-> CellText(r, c)]]
CellName(r) == IF r = 1 THEN <<"t", "h">> ELSE <<"t", "d">>

\* Each row on one line: <tr><th>..</th><th>..</th></tr>
RECURSIVE Concat(_)
Concat(seqs) == IF seqs = <<>> THEN <<>> ELSE Head(seqs) \o Concat(Tail(seqs))
RowOneLine(n, r) ==
    OPEN_TR \o Concat([c \in 1..n |-> Wrap(CellName(r), CellText(r, c))])
            \o EndTag(<<"t", "r">>)
TableOneLine(n) ==
    <<OPEN_TABLE>> \o [r \in 1..3 |-> RowOneLine(n, r)] \o <<CLOSE_TABLE>>

\* As markdown2 writes a table: <tr> on a line of its own, each cell on a
\* line of its own, indented by two spaces.
RowManyLines(n, r) ==
    <<OPEN_TR>>
      \o [c \in 1..n |-> <<" ", " ">> \o Wrap(CellName(r), CellText(r, c))]
      \o <<EndTag(<<"t", "r">>)>>
TableManyLines(n) ==
    <<OPEN_TABLE, Tag(<<"t", "h", "e", "a", "d">>)>>
      \o RowManyLines(n, 1)
      \o <<EndTag(<<"t", "h", "e", "a", "d">>), Tag(<<"t", "b", "o", "d", "y">>)>>
      \o RowManyLines(n, 2) \o RowManyLines(n, 3)
      \o <<EndTag(<<"t", "b", "o", "d", "y">>), CLOSE_TABLE>>

TableCols == 1..2
Table3Docs == {TableOneLine(n) : n \in TableCols} \cup {TableManyLines(n) : n \in TableCols}

Docs == FreeDocs \cup Code3Docs \cup Table3Docs

\* Before the call.
InitParse ==
    /\ MainIdle
    /\ lines = <<>>
    /\ i = 0
    /\ elements = <<>>
    /\ ppc = "idle"
    /\ buf = <<>>

\* The call: `elements = []`, `lines = html_content.split('\n')`, `i = 0`.
Call ==
    /\ ppc = "idle"
    /\ lines' \in Docs
    /\ i' = 0
    /\ elements' = <<>>
    /\ ppc' = "outer"
    /\ buf' = <<>>

NextParse ==
    \/ Call /\ UNCHANGED mainVars
    \/ SkipBlank /\ UNCHANGED mainVars
    \/ Heading /\ UNCHANGED mainVars
    \/ CodeSingle /\ UNCHANGED mainVars
    \/ CodeOpen /\ UNCHANGED mainVars
    \/ CodeCapture /\ UNCHANGED mainVars
    \/ CodeEmit /\ UNCHANGED mainVars
    \/ QuoteSingle /\ UNCHANGED mainVars
    \/ QuoteOpen /\ UNCHANGED mainVars
    \/ QuoteCapture /\ UNCHANGED mainVars
    \/ QuoteEmit /\ UNCHANGED mainVars
    \/ TableOpen /\ UNCHANGED mainVars
    \/ TableRow /\ UNCHANGED mainVars
    \/ TableEmit /\ UNCHANGED mainVars
    \/ ParagraphLine /\ UNCHANGED mainVars
    \/ ListItem /\ UNCHANGED mainVars
    \/ OtherLine /\ UNCHANGED mainVars
    \/ Return /\ UNCHANGED mainVars

SpecParse == InitParse /\ [][NextParse]_vars

(***************************************************************************)
(* Claims about main().                                                    *)
(***************************************************************************)
Last(s) == s[Len(s)]
NumMsgs(p, kinds) == Cardinality({k \in 1..Len(stdout[p]) : stdout[p][k].kind \in kinds})
ErrorKinds == {"ErrNotFound", "ErrReading", "ErrConverting"}
WarnKinds == {"WarnMissing", "WarnNotMarkdown"}
Converted(p) == NumMsgs(p, {"Success"}) > 0
SummaryPrinted(p) == stdout[p] # <<>> /\ Last(stdout[p]).kind = "Summary"
Filtered(files) == (1..Len(files)) \ Unfiltered(files)

\* C1 (as claimed): when main() has ended, the exit code is 0 if and only if
\* at least one file converted successfully, and it is 1 otherwise (nothing
\* converted, everything skipped, or the --output conflict).
C1_ExitZeroIffConverted ==
    \A p \in Pipelines :
        pc[p] = "exited" =>
            /\ exit_code[p] \in {0, 1}
            /\ exit_code[p] = 0 <=> Converted(p)

\* C2 (as claimed): with more than one input file and --output given, main()
\* never gets past the conflict check: no file is checked, no conversion is
\* attempted, no PDF is written, and the exit code is 1.
C2_Original ==
    \A p \in Pipelines :
        (Len(input_files) > 1 /\ output # "none") =>
            /\ pc[p] \in {"start", "exited"}
            /\ pc[p] = "exited" => exit_code[p] = 1
            /\ attempts[p] = {}
            /\ pdfs[p] = {}
            /\ NumMsgs(p, ErrorKinds \cup WarnKinds \cup {"Success", "Summary"}) = 0

\* C2 (amended): the same, for an --output value that is not the empty string.
C2_ConflictExitsBeforeAnyFile ==
    \A p \in Pipelines :
        (Len(input_files) > 1 /\ output = "set") =>
            /\ pc[p] \in {"start", "exited"}
            /\ pc[p] = "exited" =>
                  exit_code[p] = 1 /\ Last(stdout[p]).kind = "ErrConflict"
            /\ idx[p] = 0
            /\ attempts[p] = {}
            /\ pdfs[p] = {}
            /\ NumMsgs(p, ErrorKinds \cup WarnKinds \cup {"Success", "Summary"}) = 0

\* C2: a run with two or more files, one of them convertible, and --output
\* set has exited.
C2_Witness ==
    \E p \in Pipelines :
        /\ Len(input_files) > 1 /\ output = "set" /\ "ok" \in Range(input_files)
        /\ pc[p] = "exited"

\* C3 (as claimed): no failure of a conversion attempt leaves the batch loop:
\* once main() has ended without the --output conflict, every file that
\* passed the pre-check was attempted and the summary line was printed.
C3_FailuresCaughtPerFile ==
    \A p \in Pipelines :
        /\ NumMsgs(p, {"Traceback"}) = 0
        /\ (pc[p] = "exited" /\ ~Conflict(input_files, output)) =>
              /\ attempts[p] = Unfiltered(input_files)
              /\ SummaryPrinted(p)

\* C4 (as claimed): when the summary line is printed, successes plus failures
\* equal the number of arguments that passed the pre-check, and the total in
\* the summary line does not include the filtered arguments.
C4_Original ==
    \A p \in Pipelines :
        SummaryPrinted(p) =>
            /\ success_count[p] + NumMsgs(p, ErrorKinds)
                  = Cardinality(Unfiltered(input_files))
            /\ Last(stdout[p]).y = Cardinality(Unfiltered(input_files))

\* C4 (amended): at every point of the batch loop successes plus reported
\* failures equal the number of arguments visited so far that passed the
\* pre-check and whose attempt returned; filtered arguments are in neither
\* count, but the total Y of the summary line is the number of all arguments.
C4_CountsAndTotal ==
    \A p \in Pipelines :
        /\ success_count[p] = NumMsgs(p, {"Success"})
        /\ success_count[p] + NumMsgs(p, ErrorKinds)
              = Cardinality({k \in Unfiltered(input_files) : k < idx[p]})
        /\ NumMsgs(p, WarnKinds)
              = Cardinality({k \in Filtered(input_files) : k < idx[p]})
        /\ SummaryPrinted(p) =>
              /\ Last(stdout[p]).x = success_count[p]
              /\ Last(stdout[p]).y = Len(input_files)
              /\ Last(stdout[p]).y = success_count[p] + NumMsgs(p, ErrorKinds)
                                        + Cardinality(Filtered(input_files))

\* C4: a summary was printed after a skipped, a converted and a failed file.
C4_Witness ==
    \E p \in Pipelines :
        /\ SummaryPrinted(p)
        /\ Filtered(input_files) # {}
        /\ success_count[p] > 0
        /\ NumMsgs(p, ErrorKinds) > 0

\* C5 (as claimed): there is an argument list for which the two pipelines
\* compute different denominators for the summary line.
C5_Original ==
    /\ input_files \in ArgLists
    /\ \E files \in ArgLists : TotalCount("A", files) # TotalCount("B", files)

\* C5 (amended): run side by side on the same arguments, both pipelines set
\* the same total, the number of all arguments, and print it as Y.
C5_SameDenominator ==
    /\ (pc["A"] = "loop" /\ pc["B"] = "loop") =>
          total_count["A"] = total_count["B"]
    /\ (SummaryPrinted("A") /\ SummaryPrinted("B")) =>
          /\ Last(stdout["A"]).y = Last(stdout["B"]).y
          /\ Last(stdout["B"]).y = Len(input_files)

\* C5: both pipelines printed their summary for arguments of which some
\* were skipped and some were not.
C5_Witness ==
    /\ SummaryPrinted("A") /\ SummaryPrinted("B")
    /\ Filtered(input_files) # {}
    /\ Unfiltered(input_files) # {}

(***************************************************************************)
(* Claims about parse_markdown_to_elements.                                *)
(***************************************************************************)
IsBlock(e) == e.kind # "Spacer"
Blocks(es) == SelectSeq(es, IsBlock)

\* C6 (as claimed): a code block of three content lines comes out as exactly
\* one CodeBlock whose text, split on the newline, is the three content lines
\* in their order.
C6_ThreeLineCodeBlock ==
    (ppc = "done" /\ lines \in Code3Docs) =>
        /\ Len(Blocks(elements)) = 1
        /\ Blocks(elements)[1].kind = "CodeBlock"
        /\ split(Blocks(elements)[1].text, "\n")
              = [k \in 1..3 |-> Code3Content(lines)[k]]

\* C7 (as claimed): a table of a header row and two data rows comes out as
\* exactly one Table of three rows, each with as many cells as the header.
C7_TableThreeRows ==
    (ppc = "done" /\ lines \in Table3Docs) =>
        /\ Len(Blocks(elements)) = 1
        /\ Blocks(elements)[1].kind = "Table"
        /\ Len(Blocks(elements)[1].rows) = 3
        /\ \A r \in 1..3 :
              Len(Blocks(elements)[1].rows[r]) = Len(Blocks(elements)[1].rows[1])

\* The line under the cursor starts with `open` and contains `closing`.
OpensAndCloses(open, closing) ==
    /\ ppc = "outer" /\ i < Len(lines)
    /\ startswith(strip(lines[i + 1]), open)
    /\ contains(strip(lines[i + 1]), closing)
C8_Step ==
    /\ OpensAndCloses(OPEN_CODE, CLOSE_CODE) =>
          /\ elements' = elements \o
                <<Block("CodeBlock", 0, clean_html_tags(strip(lines[i + 1])), <<>>),
                  Spacer(12)>>
          /\ i' = i + 1 /\ ppc' = "outer"
    /\ OpensAndCloses(OPEN_QUOTE, CLOSE_QUOTE) =>
          /\ elements' = elements \o
                <<Block("Quote", 0, clean_html_tags(strip(lines[i + 1])), <<>>),
                  Spacer(12)>>
          /\ i' = i + 1 /\ ppc' = "outer"

\* C8 (as claimed): a line that starts with the opening marker of a code
\* block (of a blockquote) and contains the closing marker anywhere is taken
\* as a single-line block: one element from that line alone, the cursor moves
\* by one, and the next line is classified on its own.
C8_SingleLineWhenCloseAnywhere == [][C8_Step]_vars

\* The cursor moves forward on every iteration of the outer and inner loops,
\* never beyond one past the end, and a line is only taken from below the
\* end; `return` alone leaves the cursor where it is.  Len(lines) + 1 - i
\* decreases on every step before the return, so the loop terminates.
CursorStep ==
    \/ ppc = "idle" /\ i' = 0 /\ ppc' = "outer"
    \/ /\ ppc \in {"outer", "code", "quote", "table"}
       /\ i' > i /\ i' <= Len(lines) + 1
       /\ ppc' \in {"outer", "code", "quote", "table"}
       /\ i >= Len(lines) => (ppc # "outer" /\ ppc' = "outer" /\ i = Len(lines))
    \/ i' = i /\ ppc = "outer" /\ ppc' = "done" /\ i >= Len(lines)

\* A step that ends an open block because the stream has ended.
EndOfStream(kind) == ppc = kind /\ ppc' = "outer" /\ i >= Len(lines)

\* The opening line (1-based) of the block that is open.
OpenedAt(open) ==
    {s \in 1..Len(lines) : startswith(strip(lines[s]), open) /\ s <= i}

\* table_data after the lines s+1 .. Len(lines)
RECURSIVE RowsOf(_, _)
RowsOf(ls, k) ==
    IF k > Len(ls) THEN <<>>
    ELSE LET cells == IF startswith(strip(ls[k]), OPEN_TR)
                      THEN findall_cells(strip(ls[k])) ELSE <<>>
         IN (IF cells = <<>> THEN <<>>
             ELSE <<[c \in 1..Len(cells) |-> clean_html_tags(cells[c])]>>)
            \o RowsOf(ls, k + 1)

EmittedOne(kind) ==
    /\ Len(elements') = Len(elements) + 2
    /\ SubSeq(elements', 1, Len(elements)) = elements
    /\ elements'[Len(elements) + 1].kind = kind
    /\ elements'[Len(elements) + 2].kind = "Spacer"

\* An unterminated code block: one CodeBlock of the opening line's text and
\* every remaining line, raw.
CodeAtEnd ==
    EndOfStream("code") =>
        /\ EmittedOne("CodeBlock")
        /\ \E s \in OpenedAt(OPEN_CODE) :
              split(elements'[Len(elements) + 1].text, "\n")
                = <<clean_html_tags(strip(lines[s]))>> \o SubSeq(lines, s + 1, Len(lines))

\* An unterminated blockquote: one Quote of the opening line's text and every
\* remaining line, tags removed, joined by spaces.
QuoteAtEnd ==
    EndOfStream("quote") =>
        /\ EmittedOne("Quote")
        /\ \E s \in OpenedAt(OPEN_QUOTE) :
              elements'[Len(elements) + 1].text
                = join(<<" ">>, <<clean_html_tags(strip(lines[s]))>>
                        \o [k \in 1..(Len(lines) - s) |-> clean_html_tags(lines[s + k])])

C9_OriginalStep ==
    /\ CursorStep
    /\ CodeAtEnd
    /\ QuoteAtEnd
    /\ EndOfStream("table") => EmittedOne("Table")

\* C9 (as claimed): every step moves the cursor forward within bounds, and an
\* open code block, blockquote or table that meets the end of the stream is
\* emitted as exactly one element, the last block of the output.
C9_Original == [][C9_OriginalStep]_vars

C9_AmendedStep ==
    /\ CursorStep
    /\ CodeAtEnd
    /\ QuoteAtEnd
    /\ EndOfStream("table") =>
          \E s \in OpenedAt(OPEN_TABLE) :
             IF RowsOf(lines, s + 1) = <<>>
             THEN elements' = elements
             ELSE /\ EmittedOne("Table")
                  /\ elements'[Len(elements) + 1].rows = RowsOf(lines, s + 1)

\* C9 (amended): the same, except that an unterminated table is emitted, as
\* one Table of the rows captured, only if a row with cells was captured, and
\* adds nothing otherwise.
C9_TerminatesAndEmitsOpenBlock == [][C9_AmendedStep]_vars

\* C9: an unterminated code block of at least three lines has been emitted
\* and the loop has returned.
C9_Witness ==
    /\ ppc = "done"
    /\ i = Len(lines) + 1
    /\ Len(lines) >= 3
    /\ elements # <<>>
    /\ elements[Len(elements) - 1].kind = "CodeBlock"
    /\ Len(split(elements[Len(elements) - 1].text, "\n")) = Len(lines)

\* C10: the elements are block, spacer, block, spacer, ...: a block at every
\* odd position, a spacer at every even one, and an even length; so a line
\* that emits no block emits no spacer either.
C10_BlockSpacerAlternation ==
    /\ Len(elements) % 2 = 0
    /\ \A k \in 1..Len(elements) :
          (k % 2 = 0) <=> (elements[k].kind = "Spacer")

\* C10: a finished run over blocks and dropped lines: a whitespace-only
\* paragraph and a table without rows were passed, and a block was emitted.
C10_Witness ==
    /\ ppc = "done"
    /\ elements # <<>>
    /\ \E k \in 1..Len(lines) : lines[k] = Wrap(<<"p">>, <<" ">>)
    /\ \E k \in 1..Len(lines) : lines[k] = OPEN_TABLE
    /\ \A k \in 1..Len(lines) : ~startswith(lines[k], OPEN_TR)

=============================================================================
